---- MODULE Spec2Model ----
(***************************************************************************)
(* Pharmacy stock application (src/app.py): the stocks table, the CRUD     *)
(* request handlers and the spreadsheet import.                            *)
(*                                                                         *)
(* Representation.                                                         *)
(*   - text is run-length encoded: a sequence of runs [c, n] of n >= 1     *)
(*     equal characters c, neighbouring runs of different characters, so   *)
(*     that two texts are equal exactly when their encodings are; len(),   *)
(*     slicing, + and strip() are computed on the runs;                    *)
(*   - a float is an integer number of hundredths, an int an integer, so   *)
(*     that float() and int() differ (int(2.5) = 2);                       *)
(*   - a date is <<year, month, day>>, None is <<>>;                       *)
(*   - a timestamp is the value of the clock `now`, which ticks once per   *)
(*     request (datetime.utcnow()).                                        *)
(* Each request runs in its own session: the handler works on a copy of    *)
(* the committed table and the committed table changes only on a commit    *)
(* that succeeds; a handler that returns without committing, or rolls      *)
(* back, leaves it as it was (the scoped session is removed at the end of  *)
(* the request).  Queries are taken to succeed; the commit may fail.       *)
(* The requests are the POSTs of the forms, the upload and the JSON list,  *)
(* and the GET of one Stock; the pages that only render are left out.      *)
(***************************************************************************)
EXTENDS Integers, Sequences, FiniteSets, TLC

VARIABLES
    db,       \* the committed rows of table stocks: a set of Stock records
    nextId,   \* next value of the primary-key sequence of stocks.id
    now,      \* clock: number of requests served so far
    last      \* the last request and its response

vars == <<db, nextId, now, last>>

----------------------------------------------------------------------------
\* Bounds of the model

\* number of requests in a behaviour
MaxCalls == 2
\* number of data rows of an uploaded sheet
MaxRows == 2
\* number of entries of a bulk-update list
MaxUpdates == 2
\* longest text handed to truncate_string in SpecTruncate
MaxStrLen == 250

----------------------------------------------------------------------------
\* Text

Run(c, n) == [c |-> c, n |-> n]

\* the text of n characters c
Rep(c, n) == IF n = 0 THEN <<>> ELSE <<Run(c, n)>>

\* len(s)
RECURSIVE StrLen(_)
StrLen(s) == IF s = <<>> THEN 0 ELSE Head(s).n + StrLen(Tail(s))

\* s[:n]
RECURSIVE Slice(_, _)
Slice(s, n) ==
    IF n <= 0 \/ s = <<>> THEN <<>>
    ELSE IF Head(s).n >= n THEN <<Run(Head(s).c, n)>>
    ELSE <<Head(s)>> \o Slice(Tail(s), n - Head(s).n)

\* s + u
Concat(s, u) ==
    IF s = <<>> THEN u
    ELSE IF u = <<>> THEN s
    ELSE IF s[Len(s)].c = Head(u).c
    THEN SubSeq(s, 1, Len(s) - 1) \o <<Run(Head(u).c, s[Len(s)].n + Head(u).n)>>
             \o Tail(u)
    ELSE s \o u

\* s[i - 1], the i-th character, for 1 <= i <= len(s)
RECURSIVE CharAt(_, _)
CharAt(s, i) == IF i <= Head(s).n THEN Head(s).c ELSE CharAt(Tail(s), i - Head(s).n)

Ellipsis == Rep(".", 3)

IsSpace(c) == c = " "

RECURSIVE LStrip(_)
LStrip(s) == IF s # <<>> /\ IsSpace(Head(s).c) THEN LStrip(Tail(s)) ELSE s

RECURSIVE RStrip(_)
RStrip(s) ==
    IF s # <<>> /\ IsSpace(s[Len(s)].c) THEN RStrip(SubSeq(s, 1, Len(s) - 1)) ELSE s

\* str.strip()
Strip(s) == RStrip(LStrip(s))

----------------------------------------------------------------------------
\* Numbers and dates typed into a form or a text cell

Fail == [ok |-> FALSE, v |-> 0]
Ok(v) == [ok |-> TRUE, v |-> v]

\* float(text): hundredths; ValueError otherwise
FloatOfText(t) ==
    CASE t = "1"   -> Ok(100)
      [] t = "2.5" -> Ok(250)
      [] t = "7"   -> Ok(700)
      [] OTHER     -> Fail

\* int(text): a text with a decimal point is a ValueError
IntOfText(t) ==
    CASE t = "1" -> Ok(1)
      [] t = "7" -> Ok(7)
      [] OTHER   -> Fail

NoDate == <<>>
FailDate == [ok |-> FALSE, v |-> NoDate]

\* datetime.strptime(text, '%Y-%m-%d').date()
DateOfIso(t) ==
    CASE t = "2024-01-15" -> Ok(<<2024, 1, 15>>)
      [] OTHER            -> FailDate

\* datetime.strptime(text, '%d/%m/%Y').date()
DateOfDmy(t) ==
    CASE t = "15/01/2024" -> Ok(<<2024, 1, 15>>)
      [] t = "16/02/2025" -> Ok(<<2025, 2, 16>>)
      [] OTHER            -> FailDate

----------------------------------------------------------------------------
\* The table

Stock(id, name, generic_name, category, buy_price, sell_price, stock_quantity, expiry_date, created_at, updated_at) ==
    [id |-> id, name |-> name, generic_name |-> generic_name,
     category |-> category, buy_price |-> buy_price, sell_price |-> sell_price,
     stock_quantity |-> stock_quantity, expiry_date |-> expiry_date,
     created_at |-> created_at, updated_at |-> updated_at]

\* the filter names the wrong column
ByGenericName(tbl, name) == {s \in tbl : s.generic_name = name}
\* Stock.query.filter_by(name=name): the rows with that name
ByName(tbl, name) == {s \in tbl : s.name = name}

\* Stock.query.get(id): the rows with that primary key (at most one)
ById(tbl, id) == {s \in tbl : s.id = id}

\* the table with row s replaced by t
Replace(tbl, s, t) == (tbl \ {s}) \cup {t}

\* no rollback: what was flushed before the failure stays
CommitKeepsOnFailure(committed, sess, ok) == sess

\* db.session.commit() closing the request: the session's rows become the
\* committed rows; when it raises, the handler rolls back
Commit(committed, sess, ok) == IF ok THEN sess ELSE committed

----------------------------------------------------------------------------
\* Responses

Flash(kind, n, m, rows) == [kind |-> kind, n |-> n, m |-> m, rows |-> rows]
Msg(kind) == Flash(kind, 0, 0, <<>>)

Resp(status, flashes) == [status |-> status, flash |-> flashes, json |-> "none"]
Json(status, body) == [status |-> status, flash |-> <<>>, json |-> body]

Result(tbl, nid, resp) == [db |-> tbl, nextId |-> nid, resp |-> resp]

----------------------------------------------------------------------------
\* POST /stock/new

Form(name, generic_name, category, buy_price, sell_price, stock_quantity, expiry_date) ==
    [name |-> name, generic_name |-> generic_name, category |-> category,
     buy_price |-> buy_price, sell_price |-> sell_price,
     stock_quantity |-> stock_quantity, expiry_date |-> expiry_date]

FormNumbersOk(f) ==
    /\ FloatOfText(f.buy_price).ok
    /\ FloatOfText(f.sell_price).ok
    /\ IntOfText(f.stock_quantity).ok

FormDateOk(f) == f.expiry_date = "" \/ DateOfIso(f.expiry_date).ok

FormDate(f) == IF f.expiry_date = "" THEN NoDate ELSE DateOfIso(f.expiry_date).v

add_stock(committed, nid, t, f, ok) ==
    LET name == Strip(f.name) IN
    IF name = <<>>
    THEN Result(committed, nid, Resp(200, <<Msg("name_required")>>))
    ELSE IF ~FormNumbersOk(f)
    THEN Result(committed, nid, Resp(200, <<Msg("invalid_numeric")>>))
    ELSE IF ~FormDateOk(f)
    THEN Result(committed, nid, Resp(200, <<Msg("invalid_date")>>))
    ELSE IF ByName(committed, name) # {}
    THEN Result(committed, nid, Resp(200, <<Msg("already_exists")>>))
    ELSE LET stock == Stock(nid, name, Strip(f.generic_name), Strip(f.category),
                            FloatOfText(f.buy_price).v, FloatOfText(f.sell_price).v,
                            IntOfText(f.stock_quantity).v, FormDate(f), t, t)
             sess == committed \cup {stock}
         IN  Result(Commit(committed, sess, ok), nid + 1,
                    IF ok THEN Resp(302, <<Msg("added")>>)
                          ELSE Resp(200, <<Msg("error_adding")>>))

----------------------------------------------------------------------------
\* POST /stock/<id>/edit

\* the assignments reach the table without a commit
AbandonKeepsSession(committed, sess) == sess

\* a handler that returns without db.session.commit(): what it assigned lives
\* in the request's session only and goes with it when the request ends
Abandon(committed, sess) == committed

\* the assignments of lines 201-209, in order, up to the first float()/int()
\* that raises ValueError
EditAssigned(stock, f) ==
    LET s1 == [stock EXCEPT !.name = Strip(f.name),
                            !.generic_name = Strip(f.generic_name),
                            !.category = Strip(f.category)]
        s2 == IF FloatOfText(f.buy_price).ok
              THEN [s1 EXCEPT !.buy_price = FloatOfText(f.buy_price).v] ELSE s1
        s3 == IF FloatOfText(f.buy_price).ok /\ FloatOfText(f.sell_price).ok
              THEN [s2 EXCEPT !.sell_price = FloatOfText(f.sell_price).v] ELSE s2
    IN  IF FormNumbersOk(f)
        THEN [s3 EXCEPT !.stock_quantity = IntOfText(f.stock_quantity).v]
        ELSE s3

edit_stock(committed, nid, t, stock_id, f, ok) ==
    IF ById(committed, stock_id) = {}
    THEN Result(committed, nid, Resp(404, <<>>))
    ELSE LET stock == CHOOSE s \in committed : s.id = stock_id
             assigned == EditAssigned(stock, f)
         IN  IF ~FormNumbersOk(f)
             THEN Result(Abandon(committed, Replace(committed, stock, assigned)), nid,
                         Resp(200, <<Msg("invalid_numeric")>>))
             ELSE IF ~FormDateOk(f)
             THEN Result(Abandon(committed, Replace(committed, stock, assigned)), nid,
                         Resp(200, <<Msg("invalid_date")>>))
             ELSE LET edited == [assigned EXCEPT !.expiry_date = FormDate(f),
                                                 !.updated_at = t]
                  IN  Result(Commit(committed, Replace(committed, stock, edited), ok),
                             nid,
                             IF ok THEN Resp(302, <<Msg("updated")>>)
                                   ELSE Resp(200, <<Msg("error_updating")>>))

----------------------------------------------------------------------------
\* POST /stock/<id>/delete

\* get_or_404 sits inside the try: the NotFound it raises is caught by
\* `except Exception`, flashed, and the handler redirects like a success
delete_stock(committed, nid, stock_id, ok) ==
    IF ById(committed, stock_id) = {}
    THEN Result(committed, nid, Resp(302, <<Msg("error_deleting")>>))
    ELSE Result(Commit(committed, committed \ ById(committed, stock_id), ok), nid,
                IF ok THEN Resp(302, <<Msg("deleted")>>)
                      ELSE Resp(302, <<Msg("error_deleting")>>))

----------------------------------------------------------------------------
\* GET /stock/<id>

\* date.strftime('%Y-%m-%d'), None for no date
IsoOfDate(d) ==
    CASE d = <<2024, 1, 15>> -> "2024-01-15"
      [] d = <<2025, 2, 16>> -> "2025-02-16"
      [] OTHER               -> "None"

to_dict(s) ==
    [id |-> s.id, name |-> s.name, generic_name |-> s.generic_name,
     category |-> s.category, buy_price |-> s.buy_price,
     sell_price |-> s.sell_price, stock_quantity |-> s.stock_quantity,
     expiry_date |-> IsoOfDate(s.expiry_date),
     profit_per_unit |-> s.sell_price - s.buy_price,
     total_value |-> s.sell_price * s.stock_quantity]

get_stock(committed, nid, stock_id) ==
    IF ById(committed, stock_id) = {}
    THEN Result(committed, nid, Json(404, <<"error">>))
    ELSE Result(committed, nid,
                Json(200, <<to_dict(CHOOSE s \in committed : s.id = stock_id)>>))

----------------------------------------------------------------------------
\* POST /clear-stock

clear_stock(committed, nid, ok) ==
    Result(Commit(committed, {}, ok), nid,
           IF ok THEN Resp(302, <<Flash("cleared", Cardinality(committed), 0, <<>>)>>)
                 ELSE Resp(302, <<Msg("error_clearing")>>))

----------------------------------------------------------------------------
\* POST /stock/bulk-update

\* one object of the JSON list: the keys it has and their values
Update(keys, id, quantity) == [keys |-> keys, id |-> id, quantity |-> quantity]

\* an id that matches no row is an error
BulkStepUnknownRaises(st, t, u) ==
    IF st.raised THEN st
    ELSE IF "id" \notin u.keys THEN [st EXCEPT !.raised = TRUE]
    ELSE IF ById(st.sess, u.id) = {} THEN [st EXCEPT !.raised = TRUE]
    ELSE IF "quantity" \notin u.keys THEN [st EXCEPT !.raised = TRUE]
    ELSE LET stock == CHOOSE s \in st.sess : s.id = u.id
         IN  [st EXCEPT !.sess = Replace(st.sess, stock,
                                 [stock EXCEPT !.stock_quantity = u.quantity,
                                               !.updated_at = t])]

\* one pass of the loop body on the session; raised: update['id'] or
\* update['quantity'] was a KeyError
BulkStep(st, t, u) ==
    IF st.raised THEN st
    ELSE IF "id" \notin u.keys THEN [st EXCEPT !.raised = TRUE]
    ELSE IF ById(st.sess, u.id) = {} THEN st
    ELSE IF "quantity" \notin u.keys THEN [st EXCEPT !.raised = TRUE]
    ELSE LET stock == CHOOSE s \in st.sess : s.id = u.id
         IN  [st EXCEPT !.sess = Replace(st.sess, stock,
                                 [stock EXCEPT !.stock_quantity = u.quantity,
                                               !.updated_at = t])]

RECURSIVE BulkLoop(_, _, _)
BulkLoop(st, t, updates) ==
    IF updates = <<>> THEN st
    ELSE BulkLoop(BulkStep(st, t, Head(updates)), t, Tail(updates))

bulk_update_stock(committed, nid, t, updates, ok) ==
    LET st == BulkLoop([sess |-> committed, raised |-> FALSE], t, updates) IN
    IF st.raised
    THEN Result(Commit(committed, st.sess, FALSE), nid, Json(500, <<"error">>))
    ELSE Result(Commit(committed, st.sess, ok), nid,
                IF ok THEN Json(200, <<"success">>) ELSE Json(500, <<"error">>))

----------------------------------------------------------------------------
\* POST /upload

\* max_length of the three truncate_string calls
MaxLength == 200

\* the marker is appended to max_length characters
truncate_string_no_room(value, max_length) ==
    IF value # <<>> /\ StrLen(value) > max_length
    THEN Concat(Slice(value, max_length), Ellipsis)
    ELSE value

truncate_string(value, max_length) ==
    IF value # <<>> /\ StrLen(value) > max_length
    THEN Concat(Slice(value, max_length - 3), Ellipsis)
    ELSE value

\* a filename is the sequence of its parts between the dots; '' is <<>>
\* str.lower() of an extension
Lower(part) ==
    CASE part = "XLS"  -> "xls"
      [] part = "XLSX" -> "xlsx"
      [] OTHER         -> part

allowed_file(filename) ==
    Len(filename) > 1 /\ Lower(filename[Len(filename)]) \in {"xlsx", "xls"}

\* cells of a sheet as pandas hands them over: a number (hundredths), a text,
\* a timestamp, or NaN for an empty cell
Num(v) == [t |-> "num", a |-> "", v |-> v, d |-> NoDate]
Text(a) == [t |-> "text", a |-> a, v |-> 0, d |-> NoDate]
DateCell(d) == [t |-> "date", a |-> "", v |-> 0, d |-> d]
NaN == [t |-> "nan", a |-> "", v |-> 0, d |-> NoDate]

\* float(cell)
FloatOfCell(c) ==
    CASE c.t = "num"  -> Ok(c.v)
      [] c.t = "text" -> FloatOfText(c.a)
      [] OTHER        -> Fail

\* int(cell): a number is cut towards zero
IntOfCell(c) ==
    CASE c.t = "num"  -> Ok(IF c.v >= 0 THEN c.v \div 100 ELSE -((-c.v) \div 100))
      [] c.t = "text" -> IntOfText(c.a)
      [] OTHER        -> Fail

\* the check forgets sell_price
RequiredColumnsWithoutSellPrice == {"name", "buy_price", "stock_quantity"}
RequiredColumns == {"name", "buy_price", "sell_price", "stock_quantity"}

MissingColumns(cols) == RequiredColumns \ cols

\* a text is tried in YYYY-MM-DD only
ExpiryOfIsoOnly(cols, c) ==
    IF "expiry_date" \notin cols \/ c.t = "nan" THEN NoDate
    ELSE IF c.t = "text"
    THEN IF DateOfIso(c.a).ok THEN DateOfIso(c.a).v ELSE NoDate
    ELSE IF c.t = "date" THEN c.d
    ELSE NoDate

\* lines 318-339: a text is tried as YYYY-MM-DD, then as DD/MM/YYYY, then
\* asked for date(), which a text does not have; any other value is asked for
\* date(), which a timestamp has, then for to_pydatetime(), which a number
\* does not have
ExpiryOf(cols, c) ==
    IF "expiry_date" \notin cols \/ c.t = "nan" THEN NoDate
    ELSE IF c.t = "text"
    THEN IF DateOfIso(c.a).ok THEN DateOfIso(c.a).v
         ELSE IF DateOfDmy(c.a).ok THEN DateOfDmy(c.a).v
         ELSE NoDate
    ELSE IF c.t = "date" THEN c.d
    ELSE NoDate

\* row.get(column, '')
Get(cols, row, column) == IF column \in cols THEN row[column] ELSE <<>>

\* only buy_price is validated
RowNumbersOkBuyPriceOnly(row) == FloatOfCell(row.buy_price).ok

RowNumbersOk(row) ==
    /\ FloatOfCell(row.buy_price).ok
    /\ FloatOfCell(row.sell_price).ok
    /\ IntOfCell(row.stock_quantity).ok

\* the values lines 318-350 take from a row whose numbers parse
RowValues(cols, row) ==
    [name |-> truncate_string(row.name, MaxLength),
     generic_name |-> truncate_string(Get(cols, row, "generic_name"), MaxLength),
     category |-> truncate_string(Get(cols, row, "category"), MaxLength),
     buy_price |-> FloatOfCell(row.buy_price).v,
     sell_price |-> FloatOfCell(row.sell_price).v,
     stock_quantity |-> IntOfCell(row.stock_quantity).v,
     expiry_date |-> ExpiryOf(cols, row.expiry_date)]

\* the update forgets stock_quantity
UpdateExistingKeepsQuantity(existing_stock, v, t) ==
    [existing_stock EXCEPT !.generic_name = v.generic_name,
                           !.category = v.category,
                           !.buy_price = v.buy_price,
                           !.sell_price = v.sell_price,
                           !.expiry_date = v.expiry_date,
                           !.updated_at = t]

\* lines 359-365
UpdateExisting(existing_stock, v, t) ==
    [existing_stock EXCEPT !.generic_name = v.generic_name,
                           !.category = v.category,
                           !.buy_price = v.buy_price,
                           !.sell_price = v.sell_price,
                           !.stock_quantity = v.stock_quantity,
                           !.expiry_date = v.expiry_date,
                           !.updated_at = t]

\* lines 369-377
NewStock(id, v, t) ==
    Stock(id, v.name, v.generic_name, v.category, v.buy_price, v.sell_price,
          v.stock_quantity, v.expiry_date, t, t)

\* Stock.query.filter_by(name=name).first() inside the loop: the query flushes
\* the session first, so it sees the rows added by earlier rows of the sheet;
\* without ORDER BY any of the rows with the name may be the first
Existing(st, name) == ByName(st.sess, name)

\* the body of the loop for the row at 0-based position index, on the loop
\* state st = [sess, nextId, added, updated, errors]
ProcessRow(st, t, cols, row, index) ==
    IF ~RowNumbersOk(row)
    THEN {[st EXCEPT !.errors = Append(@, index + 2)]}
    ELSE LET v == RowValues(cols, row) IN
         IF Existing(st, v.name) # {}
         THEN { [st EXCEPT !.sess = Replace(@, existing_stock,
                                            UpdateExisting(existing_stock, v, t)),
                           !.updated = @ + 1]
                : existing_stock \in Existing(st, v.name) }
         ELSE { [st EXCEPT !.sess = @ \cup {NewStock(st.nextId, v, t)},
                           !.nextId = @ + 1,
                           !.added = @ + 1] }

\* for index, row in df.iterrows(), from position index on
RECURSIVE ImportLoop(_, _, _, _, _)
ImportLoop(sts, t, cols, rows, index) ==
    IF index >= Len(rows) THEN sts
    ELSE ImportLoop(UNION {ProcessRow(st, t, cols, rows[index + 1], index) : st \in sts},
                    t, cols, rows, index + 1)

ImportStart(committed, nid) ==
    [sess |-> committed, nextId |-> nid, added |-> 0, updated |-> 0, errors |-> <<>>]

Min(a, b) == IF a < b THEN a ELSE b
Max(a, b) == IF a > b THEN a ELSE b

\* lines 387-401
ImportFlashes(st) ==
    LET summary ==
            IF st.updated > 0 /\ st.added > 0
            THEN Flash("imported_and_updated", st.added, st.updated, <<>>)
            ELSE IF st.added > 0 THEN Flash("imported", st.added, 0, <<>>)
            ELSE IF st.updated > 0 THEN Flash("updated_only", 0, st.updated, <<>>)
            ELSE Msg("no_changes")
    IN  IF st.errors # <<>>
        THEN <<summary,
               Flash("warning", 0, Max(Len(st.errors) - 5, 0),
                     SubSeq(st.errors, 1, Min(Len(st.errors), 5)))>>
        ELSE <<summary>>

File(filename, cols, rows) == [filename |-> filename, cols |-> cols, rows |-> rows]

\* the results the request can have
upload_file(committed, nid, t, file, ok) ==
    IF file.filename = <<>>
    THEN {Result(committed, nid, Resp(302, <<Msg("no_file")>>))}
    ELSE IF ~allowed_file(file.filename)
    THEN {Result(committed, nid, Resp(200, <<Msg("not_excel")>>))}
    ELSE IF MissingColumns(file.cols) # {}
    THEN {Result(committed, nid, Resp(302, <<Msg("missing_columns")>>))}
    ELSE { Result(Commit(committed, st.sess, ok), st.nextId,
                  IF ok THEN Resp(302, ImportFlashes(st))
                        ELSE Resp(302, <<Msg("error_importing")>>))
           : st \in ImportLoop({ImportStart(committed, nid)}, t, file.cols,
                               file.rows, 0) }

----------------------------------------------------------------------------
\* Inputs

A == Rep("a", 1)
B == Rep("b", 1)

G1 == Concat(Rep("g", 1), Rep("1", 1))
G2 == Concat(Rep("g", 1), Rep("2", 1))

Forms ==
    { Form(n, G1, G2, "1", "2.5", "7", e) :
        n \in {<<>>, Rep(" ", 2), Concat(Rep(" ", 1), A), B},
        e \in {"", "2024-01-15"} }
      \cup { Form(B, G2, G1, "abc", "2.5", "7", ""),
              Form(A, G2, G1, "1", "abc", "7", ""),
              Form(B, G2, G1, "1", "2.5", "2.5", ""),
              Form(A, G2, G1, "1", "2.5", "7", "15/01/2024") }

\* an id no row ever has: beyond what the sequence reaches in MaxCalls requests
UnknownId == 9999

Ids == {1, 2, UnknownId}

Updates ==
    { Update({"id", "quantity"}, 1, 0), Update({"id", "quantity"}, 1, 5),
      Update({"id", "quantity"}, 2, 5), Update({"id", "quantity"}, UnknownId, 5),
      Update({"id"}, 1, 0), Update({"id"}, UnknownId, 0),
      Update({"quantity"}, 0, 5) }

RECURSIVE SeqsUpTo(_, _)
SeqsUpTo(S, n) ==
    IF n = 0 THEN {<<>>}
    ELSE LET shorter == SeqsUpTo(S, n - 1)
         IN  shorter \cup {Append(q, x) : q \in {p \in shorter : Len(p) = n - 1}, x \in S}

UpdateLists == SeqsUpTo(Updates, MaxUpdates)

Row(name, generic_name, category, buy_price, sell_price, stock_quantity, expiry_date) ==
    [name |-> name, generic_name |-> generic_name, category |-> category,
     buy_price |-> buy_price, sell_price |-> sell_price,
     stock_quantity |-> stock_quantity, expiry_date |-> expiry_date]

\* two names longer than MaxLength that differ only after position MaxLength - 3
Long1 == Rep("x", MaxLength + 1)
Long2 == Rep("x", MaxLength + 2)

\* the rows of the sheets: names are texts (an empty name cell reads as NaN,
\* not as ''), prices and quantities are numbers or texts
Rows ==
    { Row(A, G1, G1, Num(150), Num(250), Num(700), Text("2024-01-15")),
      Row(A, G2, G2, Text("1"), Num(250), Num(250), Text("15/01/2024")),
      Row(Long1, G1, Rep("c", MaxLength + 1), Num(150), Num(250), Num(700),
          DateCell(<<2025, 2, 16>>)),
      Row(Long2, G2, G2, Num(150), Num(250), Num(100), Text("not-a-date")),
      Row(A, G2, G2, Text("abc"), Num(250), Num(700), Text("2024-01-15")),
      Row(B, G2, G1, Num(150), Text("abc"), Num(700), NaN),
      Row(Long1, G2, G2, Num(150), Num(250), Text("2.5"), Num(4500000)) }

AllColumns == RequiredColumns \cup {"generic_name", "category", "expiry_date"}

ColumnSets ==
    { AllColumns, RequiredColumns, AllColumns \ {"sell_price"},
      AllColumns \ {"name", "stock_quantity"} }

Files ==
    { File(<<"stock", "xlsx">>, cols, rows) :
        cols \in ColumnSets, rows \in SeqsUpTo(Rows, MaxRows) }
      \cup { File(n, AllColumns, <<CHOOSE r \in Rows : r.name = Long2>>) :
               n \in {<<>>, <<"stock">>, <<"stock", "xlsx", "txt">>,
                      <<"stock", "XLS">>} }

----------------------------------------------------------------------------
\* The requests

Idle == [op |-> "none", arg |-> <<>>, ok |-> TRUE, resp |-> Resp(200, <<>>)]

Call(op, arg, ok, r) == [op |-> op, arg |-> arg, ok |-> ok, resp |-> r.resp]

\* a request is served from start to end; the next one starts after Teardown
Ready == last = Idle /\ now < MaxCalls

Serve(op, arg, ok, r) ==
    /\ db' = r.db
    /\ nextId' = r.nextId
    /\ now' = now + 1
    /\ last' = Call(op, arg, ok, r)

AddStock == Ready /\ \E f \in Forms, ok \in BOOLEAN :
    Serve("add_stock", f, ok, add_stock(db, nextId, now + 1, f, ok))

EditStock == Ready /\ \E i \in Ids, f \in Forms, ok \in BOOLEAN :
    Serve("edit_stock", [id |-> i, form |-> f], ok,
          edit_stock(db, nextId, now + 1, i, f, ok))

DeleteStock == Ready /\ \E i \in Ids, ok \in BOOLEAN :
    Serve("delete_stock", i, ok, delete_stock(db, nextId, i, ok))

GetStock == Ready /\ \E i \in Ids :
    Serve("get_stock", i, TRUE, get_stock(db, nextId, i))

ClearStock == Ready /\ \E ok \in BOOLEAN :
    Serve("clear_stock", <<>>, ok, clear_stock(db, nextId, ok))

BulkUpdateStock == Ready /\ \E us \in UpdateLists, ok \in BOOLEAN :
    Serve("bulk_update_stock", us, ok,
          bulk_update_stock(db, nextId, now + 1, us, ok))

UploadFile == Ready /\ \E file \in Files, ok \in BOOLEAN :
    \E r \in upload_file(db, nextId, now + 1, file, ok) :
        Serve("upload_file", file, ok, r)

\* the response is sent and the request's session is removed
Teardown ==
    /\ last # Idle
    /\ last' = Idle
    /\ UNCHANGED <<db, nextId, now>>

Init ==
    /\ db = {}
    /\ nextId = 1
    /\ now = 0
    /\ last = Idle

Next ==
    \/ AddStock
    \/ EditStock
    \/ DeleteStock
    \/ GetStock
    \/ ClearStock
    \/ BulkUpdateStock
    \/ UploadFile
    \/ Teardown

Spec == Init /\ [][Next]_vars

----------------------------------------------------------------------------
\* truncate_string on its own: a text is drawn, then truncated, or imported
\* as the name, generic_name and category of a one-row sheet

Chars == {"x", "."}

\* the texts of at most two runs and at most n characters
Texts(n) ==
    {<<>>}
      \cup {Rep(c, k) : c \in Chars, k \in 1..n}
      \cup UNION { {Concat(Rep(c, k), Rep(d, m)) : m \in 1..(n - k)} :
                     c \in Chars, d \in Chars, k \in 1..n }

InitTruncate ==
    /\ db = {}
    /\ nextId = 1
    /\ now = 0
    /\ \E value \in Texts(MaxStrLen) :
          last = [op |-> "text", arg |-> value, ok |-> TRUE, resp |-> <<>>]

TruncateText ==
    /\ last.op = "text"
    /\ last' = [op |-> "truncate_string", arg |-> last.arg, ok |-> TRUE,
                resp |-> truncate_string(last.arg, MaxLength)]
    /\ UNCHANGED <<db, nextId, now>>

UploadText ==
    /\ last.op = "text"
    /\ last.arg # <<>>
    /\ LET file == File(<<"stock", "xlsx">>, AllColumns,
                        <<Row(last.arg, last.arg, last.arg, Num(150), Num(250),
                              Num(700), NaN)>>)
       IN  \E r \in upload_file(db, nextId, now + 1, file, TRUE) :
              Serve("upload_file", file, TRUE, r)

NextTruncate == TruncateText \/ UploadText

SpecTruncate == InitTruncate /\ [][NextTruncate]_vars

----------------------------------------------------------------------------
\* The expiry_date of the import on its own: sheets of rows that differ in
\* their expiry_date cell, with and without the expiry_date column

\* what pandas can hand over for the cell: a timestamp, a text in one of the
\* two formats, a text in another date format, a text that is no date, a
\* number, NaN for an empty cell
ExpiryCells ==
    { DateCell(<<2025, 2, 16>>), Text("2024-01-15"), Text("15/01/2024"),
      Text("16/02/2025"), Text("2024/01/15"), Text("not-a-date"),
      Num(4500000), NaN }

ExpiryRows ==
    { Row(A, G1, G1, Num(150), Num(250), Num(700), c) : c \in ExpiryCells }
      \cup { Row(A, G2, G2, Text("abc"), Num(250), Num(700),
                  DateCell(<<2025, 2, 16>>)) }

ExpiryFiles ==
    { File(<<"stock", "xlsx">>, cols, rows) :
        cols \in {AllColumns, RequiredColumns},
        rows \in SeqsUpTo(ExpiryRows, MaxRows) }

UploadExpiry == Ready /\ \E file \in ExpiryFiles, ok \in BOOLEAN :
    \E r \in upload_file(db, nextId, now + 1, file, ok) :
        Serve("upload_file", file, ok, r)

NextExpiry == UploadExpiry \/ Teardown

SpecExpiry == Init /\ [][NextExpiry]_vars

----------------------------------------------------------------------------
\* What a response of the import reports

Inserted(resp) ==
    IF resp.flash[1].kind \in {"imported_and_updated", "imported"}
    THEN resp.flash[1].n ELSE 0

Updated(resp) ==
    IF resp.flash[1].kind \in {"imported_and_updated", "updated_only"}
    THEN resp.flash[1].m ELSE 0

ErrorCount(resp) ==
    IF Len(resp.flash) > 1 THEN Len(resp.flash[2].rows) + resp.flash[2].m ELSE 0

\* the request read a sheet
ReadsSheet(call) == call.op = "upload_file" /\ allowed_file(call.arg.filename)

TheRequiredColumns == {"name", "buy_price", "sell_price", "stock_quantity"}

\* the request read a sheet that has the required columns
ReadsRows(call) == ReadsSheet(call) /\ TheRequiredColumns \subseteq call.arg.cols

Unparsable(row) ==
    \/ ~FloatOfCell(row.buy_price).ok
    \/ ~FloatOfCell(row.sell_price).ok
    \/ ~IntOfCell(row.stock_quantity).ok

ValidRow(row) == row.name # <<>> /\ ~Unparsable(row)

\* a name as the import stores it
Stored(name) == truncate_string(name, MaxLength)

\* the rows without their timestamps
Fields(tbl) ==
    { [id |-> s.id, name |-> s.name, generic_name |-> s.generic_name,
       category |-> s.category, buy_price |-> s.buy_price,
       sell_price |-> s.sell_price, stock_quantity |-> s.stock_quantity,
       expiry_date |-> s.expiry_date] : s \in tbl }

----------------------------------------------------------------------------
\* C1: an import of a sheet that lacks a required column (name, buy_price,
\* sell_price, stock_quantity) changes nothing, whatever its rows: the table
\* and the id sequence are as before and the only message is the one about
\* the missing columns.
C1_MissingColumnAborts ==
    [][ (ReadsSheet(last') /\ ~(TheRequiredColumns \subseteq last'.arg.cols))
        => /\ db' = db
           /\ nextId' = nextId
           /\ last'.resp.flash = <<Msg("missing_columns")>> ]_vars

\* such a sheet, with a row that would have been inserted, met a table with rows
C1_Witness ==
    /\ ReadsSheet(last)
    /\ "sell_price" \notin last.arg.cols
    /\ \E i \in 1..Len(last.arg.rows) : ValidRow(last.arg.rows[i])
    /\ db # {}

----------------------------------------------------------------------------
\* C2 as stated: a sheet of N valid rows with pairwise distinct names, none
\* the name of a Stock, imports as N inserts, 0 updates, 0 errors; the same
\* sheet imported again gives 0 inserts, N updates, 0 errors and the same
\* records (ids, names, imported values).
C2_Reimport(N) ==
    /\ Inserted(last'.resp) = N
    /\ Updated(last'.resp) = 0
    /\ ErrorCount(last'.resp) = 0
    /\ \A r \in upload_file(db', nextId', now' + 1, last'.arg, TRUE) :
          /\ Inserted(r.resp) = 0
          /\ Updated(r.resp) = N
          /\ ErrorCount(r.resp) = 0
          /\ Fields(r.db) = Fields(db')

C2_Original ==
    [][ LET rows == last'.arg.rows IN
        ( /\ ReadsRows(last') /\ last'.ok
          /\ \A i \in 1..Len(rows) : ValidRow(rows[i])
          /\ \A i, j \in 1..Len(rows) : i # j => rows[i].name # rows[j].name
          /\ \A i \in 1..Len(rows) : \A s \in db : s.name # rows[i].name )
        => C2_Reimport(Len(rows)) ]_vars

\* C2: the same, the names being compared as the import stores them, cut to
\* 200 characters: pairwise distinct after the cut, none the name of a Stock.
C2_ReimportByStoredName ==
    [][ LET rows == last'.arg.rows IN
        ( /\ ReadsRows(last') /\ last'.ok
          /\ \A i \in 1..Len(rows) : ValidRow(rows[i])
          /\ \A i, j \in 1..Len(rows) :
                i # j => Stored(rows[i].name) # Stored(rows[j].name)
          /\ \A i \in 1..Len(rows) : \A s \in db : s.name # Stored(rows[i].name) )
        => C2_Reimport(Len(rows)) ]_vars

\* a second import of MaxRows valid rows, one of them with a long name, has
\* updated the records an earlier import inserted
C2_Witness ==
    LET rows == last.arg.rows IN
    /\ ReadsRows(last) /\ last.ok
    /\ Len(rows) > 1
    /\ \A i \in 1..Len(rows) : ValidRow(rows[i])
    /\ \A i, j \in 1..Len(rows) : i # j => Stored(rows[i].name) # Stored(rows[j].name)
    /\ \E i \in 1..Len(rows) : StrLen(rows[i].name) > MaxLength
    /\ Inserted(last.resp) = 0
    /\ Updated(last.resp) = Len(rows)
    /\ Cardinality(db) = Len(rows)
    /\ \A s \in db : s.created_at < s.updated_at /\ s.updated_at = now

----------------------------------------------------------------------------
\* C3: in an import that commits, the rows whose buy_price, sell_price or
\* stock_quantity does not parse add one error each and nothing else: the
\* table, the id sequence and the inserted and updated counts are those of
\* the import of the sheet without these rows.
C3_Others(rows) == SelectSeq(rows, LAMBDA row : ~Unparsable(row))

C3_BadRowSkipped ==
    [][ (ReadsRows(last') /\ last'.ok)
        => LET file == last'.arg
               others == C3_Others(file.rows)
           IN  /\ ErrorCount(last'.resp) = Len(file.rows) - Len(others)
               /\ \E r \in upload_file(db, nextId, now + 1,
                                       [file EXCEPT !.rows = others], TRUE) :
                     /\ r.db = db'
                     /\ r.nextId = nextId'
                     /\ Inserted(r.resp) = Inserted(last'.resp)
                     /\ Updated(r.resp) = Updated(last'.resp)
                     /\ ErrorCount(r.resp) = 0 ]_vars

\* a sheet with a bad sell_price row naming an existing Stock, followed by a
\* good row, was imported: one error, one row processed
C3_Witness ==
    LET rows == last.arg.rows IN
    /\ ReadsRows(last) /\ last.ok
    /\ Len(rows) > 1
    /\ ~FloatOfCell(rows[1].sell_price).ok
    /\ \E s \in db : s.name = rows[1].name
    /\ ~Unparsable(rows[Len(rows)])
    /\ ErrorCount(last.resp) = 1
    /\ Inserted(last.resp) + Updated(last.resp) = Len(rows) - 1

----------------------------------------------------------------------------
\* C4: the import commits once, after the loop: when the commit succeeds
\* every row of the sheet has been counted as an insert, an update or an
\* error; when it fails the table is as before the import and the only
\* message is the import-level error, without counts.
C4_CommitOnceOrRollback ==
    [][ ReadsRows(last')
        => IF last'.ok
           THEN Inserted(last'.resp) + Updated(last'.resp) + ErrorCount(last'.resp)
                    = Len(last'.arg.rows)
           ELSE db' = db /\ last'.resp.flash = <<Msg("error_importing")>> ]_vars

\* the commit of an import that had updated a Stock and inserted another failed
C4_Witness ==
    LET rows == last.arg.rows IN
    /\ ReadsRows(last) /\ ~last.ok
    /\ Len(rows) > 1
    /\ \A i \in 1..Len(rows) : ValidRow(rows[i])
    /\ \E s \in db : s.name = Stored(rows[1].name)
    /\ \A s \in db : s.name # Stored(rows[2].name)
    /\ nextId > 2

----------------------------------------------------------------------------
\* C5 as stated: two valid rows of a sheet have the same name, which no other
\* valid row and no Stock has: after the import one Stock has the name (as
\* stored), it is new, it holds the values of the later row, and the counts
\* are one insert per new name and one update per other valid row.
C5_LastRowWins(rows, i, j) ==
    LET name == Stored(rows[j].name)
        valid == {k \in 1..Len(rows) : ValidRow(rows[k])}
        new == {Stored(rows[k].name) : k \in valid} \ {s.name : s \in db}
    IN  /\ Cardinality({s \in db' : s.name = name}) = 1
        /\ \A s \in db' :
              s.name = name
              => /\ \A old \in db : old.id # s.id
                 /\ s.created_at = now'
                 /\ s.buy_price = FloatOfCell(rows[j].buy_price).v
                 /\ s.sell_price = FloatOfCell(rows[j].sell_price).v
                 /\ s.stock_quantity = IntOfCell(rows[j].stock_quantity).v
                 /\ s.generic_name = Stored(Get(last'.arg.cols, rows[j], "generic_name"))
                 /\ s.category = Stored(Get(last'.arg.cols, rows[j], "category"))
                 /\ s.expiry_date = ExpiryOf(last'.arg.cols, rows[j].expiry_date)
        /\ Inserted(last'.resp) = Cardinality(new)
        /\ Updated(last'.resp) = Cardinality(valid) - Cardinality(new)

C5_Original ==
    [][ LET rows == last'.arg.rows IN
        (ReadsRows(last') /\ last'.ok)
        => \A i, j \in 1..Len(rows) :
              ( /\ i < j /\ ValidRow(rows[i]) /\ ValidRow(rows[j])
                /\ rows[i].name = rows[j].name
                /\ \A k \in 1..Len(rows) :
                      (k \notin {i, j} /\ ValidRow(rows[k]))
                      => rows[k].name # rows[i].name
                /\ \A s \in db : s.name # rows[i].name )
              => C5_LastRowWins(rows, i, j) ]_vars

\* C5: the same, the names being compared as the import stores them, cut to
\* 200 characters.
C5_LastRowWinsByStoredName ==
    [][ LET rows == last'.arg.rows IN
        (ReadsRows(last') /\ last'.ok)
        => \A i, j \in 1..Len(rows) :
              ( /\ i < j /\ ValidRow(rows[i]) /\ ValidRow(rows[j])
                /\ Stored(rows[i].name) = Stored(rows[j].name)
                /\ \A k \in 1..Len(rows) :
                      (k \notin {i, j} /\ ValidRow(rows[k]))
                      => Stored(rows[k].name) # Stored(rows[i].name)
                /\ \A s \in db : s.name # Stored(rows[i].name) )
              => C5_LastRowWins(rows, i, j) ]_vars

\* two valid rows with one name and different quantities were imported into
\* a table without the name
C5_Witness ==
    LET rows == last.arg.rows IN
    /\ ReadsRows(last) /\ last.ok
    /\ Len(rows) = 2
    /\ ValidRow(rows[1]) /\ ValidRow(rows[2])
    /\ rows[1].name = rows[2].name
    /\ IntOfCell(rows[1].stock_quantity).v # IntOfCell(rows[2].stock_quantity).v
    /\ Inserted(last.resp) = 1 /\ Updated(last.resp) = 1
    /\ \E s \in db : s.name = rows[1].name /\ s.created_at = now

----------------------------------------------------------------------------
\* C6: a bulk update none of whose entries raises (each has an id and, when
\* the id is that of a Stock, a quantity) skips the entries with unknown ids:
\* when the commit succeeds it reports success and every Stock named by an
\* entry has the quantity of the last entry naming it, the other Stocks and
\* the other fields being as before; a list of unknown ids only changes
\* nothing.
C6_Known(us) == {i \in 1..Len(us) : \E s \in db : s.id = us[i].id}

C6_UnknownIdsSkipped ==
    [][ LET us == last'.arg IN
        ( /\ last'.op = "bulk_update_stock"
          /\ \A i \in 1..Len(us) :
                "id" \in us[i].keys /\ (i \in C6_Known(us) => "quantity" \in us[i].keys) )
        => /\ C6_Known(us) = {} => db' = db
           /\ last'.ok
              => /\ last'.resp.status = 200 /\ last'.resp.json = <<"success">>
                 /\ {s.id : s \in db'} = {s.id : s \in db}
                 /\ \A s \in db :
                       LET hits == {i \in C6_Known(us) : us[i].id = s.id} IN
                       IF hits = {} THEN s \in db'
                       ELSE [s EXCEPT
                               !.stock_quantity =
                                   us[CHOOSE i \in hits : \A j \in hits : j <= i].quantity,
                               !.updated_at = now'] \in db' ]_vars

\* a list with an unknown id before a known one was applied with success
C6_Witness ==
    LET us == last.arg IN
    /\ last.op = "bulk_update_stock" /\ last.ok
    /\ Len(us) = 2
    /\ us[1].id = UnknownId
    /\ last.resp.status = 200
    /\ \E s \in db : /\ s.id = us[2].id
                     /\ s.stock_quantity = us[2].quantity
                     /\ s.created_at < s.updated_at

----------------------------------------------------------------------------
\* C7: a request changes the table as a whole or not at all.  One that
\* reports a failure leaves the table as it was: so do a bulk update with an
\* entry that raises and an edit rejected for a price, a quantity or a date.
\* One that reports success has made all its changes: the added Stock is in
\* the table, the edited Stock has the fields of the form, the deleted Stock
\* is gone, the table is empty after clear, every Stock named in the bulk
\* list has a quantity of the list, and every valid row of the sheet has its
\* Stock.
ErrorKinds ==
    {"name_required", "invalid_numeric", "invalid_date", "already_exists",
     "error_adding", "error_updating", "error_deleting", "error_clearing",
     "error_importing", "missing_columns", "no_file", "not_excel"}

Failed(call) ==
    \/ call.resp.status \in {404, 500}
    \/ \E i \in 1..Len(call.resp.flash) : call.resp.flash[i].kind \in ErrorKinds

C7_AllDone(call) ==
    CASE call.op = "add_stock" ->
            /\ db \subseteq db'
            /\ \E s \in db' \ db : s.name = Strip(call.arg.name)
      [] call.op = "edit_stock" ->
            \E s \in db' :
               /\ s.id = call.arg.id
               /\ s.name = Strip(call.arg.form.name)
               /\ s.generic_name = Strip(call.arg.form.generic_name)
               /\ s.category = Strip(call.arg.form.category)
               /\ s.buy_price = FloatOfText(call.arg.form.buy_price).v
               /\ s.sell_price = FloatOfText(call.arg.form.sell_price).v
               /\ s.stock_quantity = IntOfText(call.arg.form.stock_quantity).v
      [] call.op = "delete_stock" -> db' = {s \in db : s.id # call.arg}
      [] call.op = "clear_stock" -> db' = {}
      [] call.op = "bulk_update_stock" ->
            \A i \in 1..Len(call.arg) : \A s \in db' :
               s.id = call.arg[i].id
               => \E j \in i..Len(call.arg) :
                     call.arg[j].id = s.id /\ s.stock_quantity = call.arg[j].quantity
      [] call.op = "upload_file" ->
            \A i \in 1..Len(call.arg.rows) :
               ValidRow(call.arg.rows[i])
               => \E s \in db' : s.name = Stored(call.arg.rows[i].name)
      [] OTHER -> db' = db

C7_AtomicPerCall ==
    [][ last'.op # "none"
        => /\ IF Failed(last') THEN db' = db ELSE C7_AllDone(last')
           /\ ( /\ last'.op = "bulk_update_stock"
                /\ \E i \in 1..Len(last'.arg) :
                      \/ "id" \notin last'.arg[i].keys
                      \/ /\ "quantity" \notin last'.arg[i].keys
                         /\ \E s \in db : s.id = last'.arg[i].id )
              => Failed(last')
           /\ ( /\ last'.op = "edit_stock"
                /\ \/ ~FloatOfText(last'.arg.form.buy_price).ok
                   \/ ~FloatOfText(last'.arg.form.sell_price).ok
                   \/ ~IntOfText(last'.arg.form.stock_quantity).ok
                   \/ /\ last'.arg.form.expiry_date # ""
                      /\ ~DateOfIso(last'.arg.form.expiry_date).ok )
              => Failed(last') ]_vars

\* an edit of a Stock was rejected for its sell_price, the form carrying
\* another name, generic_name and category than the Stock has
C7_Witness ==
    /\ last.op = "edit_stock"
    /\ ~FloatOfText(last.arg.form.sell_price).ok
    /\ last.resp.flash = <<Msg("invalid_numeric")>>
    /\ \E s \in db : /\ s.id = last.arg.id
                     /\ s.name # Strip(last.arg.form.name)
                     /\ s.generic_name # Strip(last.arg.form.generic_name)
                     /\ s.category # Strip(last.arg.form.category)

----------------------------------------------------------------------------
\* C8: get, edit and delete of an id that no Stock has answer 404 and leave
\* the table as it was.
C8_Id(call) == IF call.op = "edit_stock" THEN call.arg.id ELSE call.arg

C8_NotFoundSurfaced ==
    [][ ( /\ last'.op \in {"get_stock", "edit_stock", "delete_stock"}
          /\ \A s \in db : s.id # C8_Id(last') )
        => last'.resp.status = 404 /\ db' = db ]_vars

----------------------------------------------------------------------------
\* C9: every Stock of the table has a non-empty name.
C9_NamesNonEmpty == \A s \in db : s.name # <<>>

----------------------------------------------------------------------------
\* C10: truncate_string(value, 200) of a text longer than 200 characters has
\* 200 characters, the first 197 those of the text and the last 3 periods;
\* of a text of at most 200 characters it is the text; and the name,
\* generic_name and category the import stores have at most 200 characters.
C10_TruncateTo200 ==
    /\ last.op = "truncate_string"
       => IF StrLen(last.arg) > 200
          THEN /\ StrLen(last.resp) = 200
               /\ \A i \in 1..197 : CharAt(last.resp, i) = CharAt(last.arg, i)
               /\ \A i \in 198..200 : CharAt(last.resp, i) = "."
          ELSE last.resp = last.arg
    /\ \A s \in db : /\ StrLen(s.name) <= 200
                     /\ StrLen(s.generic_name) <= 200
                     /\ StrLen(s.category) <= 200

\* a text of more than 200 characters that changes character after the
\* 198th was truncated
C10_Witness ==
    /\ last.op = "truncate_string"
    /\ StrLen(last.arg) > 200
    /\ CharAt(last.arg, 198) # CharAt(last.arg, 199)
    /\ StrLen(last.resp) = 200

----------------------------------------------------------------------------
\* The steps C11 lists, in its order.  The last one is what the code tries
\* when the others have failed, to_pydatetime().date() (a text is asked for
\* date()): no cell pandas hands over succeeds there without having succeeded
\* at the first step.
C11_Steps(c) ==
    << IF c.t = "date" THEN Ok(c.d) ELSE FailDate,
       IF c.t = "text" THEN DateOfIso(c.a) ELSE FailDate,
       IF c.t = "text" THEN DateOfDmy(c.a) ELSE FailDate,
       FailDate >>

\* the value of the first step that succeeds, null when none does or the cell
\* is empty or the sheet has no expiry_date column
C11_Resolved(cols, c) ==
    LET steps == C11_Steps(c)
        succeed == {k \in 1..Len(steps) : steps[k].ok}
    IN  IF "expiry_date" \notin cols \/ c.t = "nan" \/ succeed = {} THEN NoDate
        ELSE steps[CHOOSE k \in succeed : \A m \in succeed : k <= m].v

----------------------------------------------------------------------------
\* C12: there is one Stock per name: whatever requests have been served, no
\* two rows of the table have the same name.
C12_OneRecordPerName == \A s1, s2 \in db : s1.name = s2.name => s1 = s2

====
